---- MODULE Spec2Model ----
(***************************************************************************)
(* Model of src/app.py: a Telegram bot that sells virtual phone numbers    *)
(* bought from a provider HTTP API.  The state is the two module-level     *)
(* dictionaries (user_data_store, purchased_numbers), the per-user session *)
(* dictionary context.user_data, and the inline buttons the bot has sent   *)
(* to each chat.  Every handler is one action: the application is built    *)
(* without concurrent updates, so an update is handled to completion       *)
(* before the next one is taken.                                           *)
(*                                                                         *)
(* Strings that the code splits at '_' (number ids, country codes) are     *)
(* sequences of their '_'-separated segments.  The profile keys of a user   *)
(* record (username, first_name, join_date) and purchase_date are left     *)
(* out: no branch of the code reads them.                                  *)
(***************************************************************************)
EXTENDS Integers, Sequences, FiniteSets, TLC

VARIABLES user_data_store, purchased_numbers, user_data, chat_buttons, last

vars == <<user_data_store, purchased_numbers, user_data, chat_buttons, last>>

(***************************************************************************)
(* Bounds and input sets.                                                  *)
(***************************************************************************)
Users == {"alice", "bob"}
SingleUser == {"alice"}
NumberIds == {<<"123">>, <<"999">>}
IssuedIds == {<<"123">>}
PhoneNumbers == {"+1555", "+4477"}
CountryCodes == {<<"US">>, <<"GB", "ENG">>}
ErrorTexts == {"timed out"}
SmsBatches == {<<>>, <<"code 1234">>}
MaxOwned == 2
MaxCountries == 21

items_per_page == 10
sms_number_limit == 5
sms_message_limit == 10

(***************************************************************************)
(* Python helpers.                                                         *)
(***************************************************************************)
Range(s) == {s[i] : i \in DOMAIN s}

Put(d, k, v) == [x \in DOMAIN d \cup {k} |-> IF x = k THEN v ELSE d[x]]

PyIdx(i, n) == IF i < 0 THEN (IF i + n < 0 THEN 0 ELSE i + n)
               ELSE (IF i > n THEN n ELSE i)

Slice(s, a, b) == SubSeq(s, PyIdx(a, Len(s)) + 1, PyIdx(b, Len(s)))

LastSegment(segs) == <<segs[Len(segs)]>>

(***************************************************************************)
(* Provider results: a response body, or the tagged failure the client     *)
(* builds from a transport error.                                          *)
(***************************************************************************)
Failures == [success : {FALSE}, has_error : {TRUE}, error : ErrorTexts, data : {<<>>}]
              \cup {[success |-> FALSE, has_error |-> FALSE, error |-> "", data |-> <<>>]}

Success(d) == [success |-> TRUE, has_error |-> FALSE, error |-> "", data |-> d]

ErrorOfDefault(result, default) == default

ErrorOf(result, default) == IF result.has_error THEN result.error ELSE default

ListingOf(n) == [i \in 1..n |-> i]

get_all_countries == {Success(ListingOf(n)) : n \in 0..MaxCountries} \cup Failures

purchase_number(ids) == {Success([number_id |-> n, phone_number |-> p]) :
                            n \in ids, p \in PhoneNumbers} \cup Failures

get_sms == {Success(b) : b \in SmsBatches} \cup Failures

cancel_number == {Success(<<>>)} \cup Failures

Call(fn, arg, result) == [fn |-> fn, arg |-> arg, result |-> result]

(***************************************************************************)
(* What the last handler did: the reply it sent and the provider calls it  *)
(* made.  reply "crash" is a handler that raised before replying.          *)
(***************************************************************************)
Out(op, via, user, reply, error, number_id, phone_number, calls, shown) ==
    [op |-> op, via |-> via, user |-> user, reply |-> reply, error |-> error,
     number_id |-> number_id, phone_number |-> phone_number,
     calls |-> calls, shown |-> shown]

NoUserRecord == [has_numbers |-> FALSE, numbers |-> <<>>]

NoSession == [has_countries |-> FALSE, countries |-> <<>>,
              has_page |-> FALSE, country_page |-> 0]

Init ==
    /\ user_data_store = [u \in {} |-> NoUserRecord]
    /\ purchased_numbers = [n \in {} |-> <<>>]
    /\ user_data = [u \in Users |-> NoSession]
    /\ chat_buttons = [u \in Users |-> [sms |-> {}, pages |-> {}]]
    /\ last = Out("init", "", "", "", "", <<>>, "", <<>>, <<>>)

(***************************************************************************)
(* start: rebuilds the caller's user record, then replies with the menu.   *)
(* Through the main_menu button update.message is None and the reply       *)
(* raises, after the record was written.                                   *)
(***************************************************************************)
StartRecord == [has_numbers |-> FALSE, numbers |-> <<>>]

start(u, via) ==
    /\ user_data_store' = Put(user_data_store, u, StartRecord)
    /\ last' = Out("start", via, u, IF via = "command" THEN "menu" ELSE "crash",
                   "", <<>>, "", <<>>, <<>>)
    /\ UNCHANGED <<purchased_numbers, user_data, chat_buttons>>

help_command(u, via) ==
    /\ last' = Out("help", via, u, IF via = "command" THEN "help" ELSE "crash",
                   "", <<>>, "", <<>>, <<>>)
    /\ UNCHANGED <<user_data_store, purchased_numbers, user_data, chat_buttons>>

(***************************************************************************)
(* purchase: only the button path reaches the provider.  The direct        *)
(* command /purchase <code> dereferences update.callback_query, which is   *)
(* None for a command update, before the provider is called.               *)
(***************************************************************************)
NewNumber(user_id, country_code, phone_number) ==
    [user_id |-> user_id, country_code |-> country_code,
     phone_number |-> phone_number, status |-> "active"]

NumbersOf(uds, u) ==
    IF u \in DOMAIN uds /\ uds[u].has_numbers THEN uds[u].numbers ELSE <<>>

PrependNumber(numbers, number_id) == <<number_id>> \o numbers

AppendNumber(numbers, number_id) == Append(numbers, number_id)

RecordOwned(uds, user_id, number_id) ==
    LET rec == IF user_id \in DOMAIN uds THEN uds[user_id] ELSE NoUserRecord
    IN  Put(uds, user_id,
            [rec EXCEPT !.has_numbers = TRUE,
                        !.numbers = AppendNumber(NumbersOf(uds, user_id), number_id)])

purchase_for_country(u, via, country_code, ids) ==
    IF via = "command"
    THEN /\ last' = Out("purchase", via, u, "crash", "", <<>>, "", <<>>, <<>>)
         /\ UNCHANGED <<user_data_store, purchased_numbers, user_data, chat_buttons>>
    ELSE \E result \in purchase_number(ids) :
         LET calls == <<Call("purchase_number", country_code, result)>> IN
         IF result.success
         THEN LET number_id == result.data.number_id
                  phone_number == result.data.phone_number
              IN  /\ Len(NumbersOf(user_data_store, u)) < MaxOwned
                  /\ purchased_numbers' =
                        Put(purchased_numbers, number_id,
                            NewNumber(u, country_code, phone_number))
                  /\ user_data_store' = RecordOwned(user_data_store, u, number_id)
                  /\ last' = Out("purchase", via, u, "purchased", "",
                                 number_id, phone_number, calls, <<>>)
                  /\ UNCHANGED <<user_data, chat_buttons>>
         ELSE /\ last' = Out("purchase", via, u, "purchase_failed",
                             ErrorOf(result, "Purchase failed"), <<>>, "", calls, <<>>)
              /\ UNCHANGED <<user_data_store, purchased_numbers, user_data, chat_buttons>>

purchase_number_command(u, via, args, ids) ==
    IF via = "command" /\ args # <<>>
    THEN purchase_for_country(u, "command", args[1], ids)
    ELSE /\ last' = Out("purchase", via, u,
                        IF via = "command" THEN "purchase_menu" ELSE "crash",
                        "", <<>>, "", <<>>, <<>>)
         /\ UNCHANGED <<user_data_store, purchased_numbers, user_data, chat_buttons>>

select_country(u, code, ids) ==
    purchase_for_country(u, "button", LastSegment(code), ids)

(***************************************************************************)
(* mysms and active: read-only listings of the caller's numbers.           *)
(***************************************************************************)
Known(pn, ids) == SelectSeq(ids, LAMBDA n : n \in DOMAIN pn)

MySmsResultOf(uds, pn, u) ==
    IF u \notin DOMAIN uds \/ ~uds[u].has_numbers \/ uds[u].numbers = <<>>
    THEN [reply |-> "no_numbers", shown |-> <<>>]
    ELSE LET ids == Known(pn, Slice(uds[u].numbers, 0, sms_number_limit))
             keyboard == [i \in 1..Len(ids) |->
                            [phone_number |-> pn[ids[i]].phone_number,
                             number_id |-> ids[i]]]
         IN  IF keyboard = <<>>
             THEN [reply |-> "none_found", shown |-> <<>>]
             ELSE [reply |-> "sms_menu", shown |-> keyboard]

my_sms_command(u, via) ==
    LET r == MySmsResultOf(user_data_store, purchased_numbers, u) IN
    IF via = "command"
    THEN /\ last' = Out("mysms", via, u, r.reply, "", <<>>, "", <<>>, r.shown)
         /\ chat_buttons' =
               [chat_buttons EXCEPT ![u].sms =
                   @ \cup {r.shown[i].number_id : i \in DOMAIN r.shown}]
         /\ UNCHANGED <<user_data_store, purchased_numbers, user_data>>
    ELSE /\ last' = Out("mysms", via, u, "crash", "", <<>>, "", <<>>, <<>>)
         /\ UNCHANGED <<user_data_store, purchased_numbers, user_data, chat_buttons>>

ActiveResultOf(uds, pn, u) ==
    IF u \notin DOMAIN uds \/ ~uds[u].has_numbers
    THEN [reply |-> "no_active_numbers", shown |-> <<>>]
    ELSE LET numbers == uds[u].numbers
             ids == SelectSeq(numbers,
                        LAMBDA n : n \in DOMAIN pn /\ pn[n].status = "active")
             \* the loop variable number_id keeps its last value after the first loop
             number_id == numbers[Len(numbers)]
         IN  IF ids = <<>>
             THEN [reply |-> "no_active_numbers", shown |-> <<>>]
             ELSE [reply |-> "active_numbers",
                   shown |-> [i \in 1..Len(ids) |->
                                [phone_number |-> pn[ids[i]].phone_number,
                                 country_code |-> pn[ids[i]].country_code,
                                 id |-> number_id]]]

active_numbers_command(u) ==
    LET r == ActiveResultOf(user_data_store, purchased_numbers, u) IN
    /\ last' = Out("active", "command", u, r.reply, "", <<>>, "", <<>>, r.shown)
    /\ UNCHANGED <<user_data_store, purchased_numbers, user_data, chat_buttons>>

(***************************************************************************)
(* cancel                                                                  *)
(***************************************************************************)
OwnershipCheck(uds, u, number_id) ==
    /\ u \in DOMAIN uds
    /\ uds[u].has_numbers
    /\ number_id \in Range(uds[u].numbers)

\* The two checks before the provider call and the reply each one sends:
\* "Number not found or doesn't belong to you." and "Number not found."
CancelCheck(uds, pn, u, number_id) ==
    IF ~OwnershipCheck(uds, u, number_id) THEN "not_found_or_not_yours"
    ELSE IF number_id \notin DOMAIN pn THEN "not_found"
    ELSE "ok"

MarkCancelledDelete(pn, number_id, result) ==
    IF result.success THEN [n \in DOMAIN pn \ {number_id} |-> pn[n]] ELSE pn

MarkCancelledAlways(pn, number_id, result) ==
    [pn EXCEPT ![number_id].status = "cancelled"]

MarkCancelled(pn, number_id, result) ==
    IF result.success THEN [pn EXCEPT ![number_id].status = "cancelled"] ELSE pn

cancel_number_command(u, args) ==
    /\ UNCHANGED <<user_data_store, user_data, chat_buttons>>
    /\ IF args = <<>>
       THEN /\ last' = Out("cancel", "command", u, "usage", "", <<>>, "", <<>>, <<>>)
            /\ UNCHANGED purchased_numbers
       ELSE LET number_id == args[1]
                check == CancelCheck(user_data_store, purchased_numbers, u, number_id)
            IN
            IF check # "ok"
            THEN /\ last' = Out("cancel", "command", u, check,
                                "", number_id, "", <<>>, <<>>)
                 /\ UNCHANGED purchased_numbers
            ELSE \E result \in cancel_number :
                 LET calls == <<Call("cancel_number", number_id, result)>> IN
                 /\ purchased_numbers' = MarkCancelled(purchased_numbers, number_id, result)
                 /\ last' = IF result.success
                            THEN Out("cancel", "command", u, "cancelled", "",
                                     number_id, "", calls, <<>>)
                            ELSE Out("cancel", "command", u, "cancel_failed",
                                     ErrorOf(result, "Cancellation failed"),
                                     number_id, "", calls, <<>>)

(***************************************************************************)
(* view_sms_<id> button, the unhandled refresh_sms button, the poll job.   *)
(***************************************************************************)
view_sms_messages(u, id) ==
    \E result \in get_sms :
    LET number_id == LastSegment(id)
        calls == <<Call("get_sms", number_id, result)>>
    IN  /\ id \in chat_buttons[u].sms
        /\ last' = IF result.success
                   THEN Out("view_sms", "button", u,
                            IF result.data # <<>> THEN "sms_messages" ELSE "no_sms",
                            "", number_id, "", calls,
                            Slice(result.data, 0, sms_message_limit))
                   ELSE Out("view_sms", "button", u, "sms_error",
                            ErrorOf(result, "Unknown error"), number_id, "", calls, <<>>)
        /\ chat_buttons' = [chat_buttons EXCEPT ![u].sms = @ \cup {number_id}]
        /\ UNCHANGED <<user_data_store, purchased_numbers, user_data>>

refresh_sms(u) ==
    /\ last' = Out("refresh_sms", "button", u, "none", "", <<>>, "", <<>>, <<>>)
    /\ UNCHANGED <<user_data_store, purchased_numbers, user_data, chat_buttons>>

\* The job is a coroutine function run by a thread-pool scheduler: each tick
\* creates a coroutine object that is never awaited, so the body does not run.
check_sms_scheduler ==
    /\ last' = Out("poll", "timer", "", "none", "", <<>>, "", <<>>, <<>>)
    /\ UNCHANGED <<user_data_store, purchased_numbers, user_data, chat_buttons>>

(***************************************************************************)
(* countries: the listing snapshot and its pages.                          *)
(***************************************************************************)
StoreListingAlways(session, result) ==
    [has_countries |-> TRUE, countries |-> result.data,
     has_page |-> TRUE, country_page |-> 0]

StoreListing(session, result) ==
    IF result.success /\ result.data # <<>>
    THEN [has_countries |-> TRUE, countries |-> result.data,
          has_page |-> TRUE, country_page |-> 0]
    ELSE session

HasPrevious(page) == page > 0

HasNextInclusive(end_idx, n) == end_idx <= n

HasNext(end_idx, n) == end_idx < n

show_countries_page(session, page) ==
    LET countries == IF session.has_countries THEN session.countries ELSE <<>>
        start_idx == page * items_per_page
        end_idx == start_idx + items_per_page
    IN  [items |-> Slice(countries, start_idx, end_idx),
         prev |-> HasPrevious(page),
         next |-> HasNext(end_idx, Len(countries)),
         page |-> page,
         total |-> Len(countries),
         pages |-> ((Len(countries) - 1) \div items_per_page) + 1]

NavButtons(shown) ==
    (IF shown.prev THEN {shown.page - 1} ELSE {})
        \cup (IF shown.next THEN {shown.page + 1} ELSE {})

list_countries_command(u, via) ==
    IF via = "button"
    THEN /\ last' = Out("countries", via, u, "crash", "", <<>>, "", <<>>, <<>>)
         /\ UNCHANGED <<user_data_store, purchased_numbers, user_data, chat_buttons>>
    ELSE \E result \in get_all_countries :
         LET calls == <<Call("get_all_countries", <<>>, result)>>
             session == StoreListing(user_data[u], result)
             shown == show_countries_page(session, 0)
         IN  /\ user_data' = [user_data EXCEPT ![u] = session]
             /\ UNCHANGED <<user_data_store, purchased_numbers>>
             /\ IF result.success
                THEN IF result.data = <<>>
                     THEN /\ last' = Out("countries", via, u, "no_countries", "",
                                         <<>>, "", calls, <<>>)
                          /\ UNCHANGED chat_buttons
                     ELSE /\ last' = Out("countries", via, u, "countries_page", "",
                                         <<>>, "", calls, shown)
                          /\ chat_buttons' = [chat_buttons EXCEPT
                                                 ![u].pages = @ \cup NavButtons(shown)]
                ELSE /\ last' = Out("countries", via, u, "countries_error",
                                    ErrorOf(result, "Unknown error"), <<>>, "", calls, <<>>)
                     /\ UNCHANGED chat_buttons

country_page(u, page) ==
    LET session == [user_data[u] EXCEPT !.has_page = TRUE, !.country_page = page]
        shown == show_countries_page(session, page)
    IN  /\ page \in chat_buttons[u].pages
        /\ user_data' = [user_data EXCEPT ![u] = session]
        /\ last' = Out("page", "button", u, "countries_page", "", <<>>, "", <<>>, shown)
        /\ chat_buttons' = [chat_buttons EXCEPT ![u].pages = @ \cup NavButtons(shown)]
        /\ UNCHANGED <<user_data_store, purchased_numbers>>

(***************************************************************************)
(* Specifications.  Static buttons (main_menu, my_sms, help,               *)
(* purchase_menu, refresh_sms, select_country_<code>) are taken as always  *)
(* available: the handlers that show them change no state.                 *)
(*   Spec        every user, a provider that issues and reissues the ids   *)
(*               of IssuedIds                                              *)
(*   SpecSingle  one user, a provider that issues every id of NumberIds    *)
(*   SpecBrowse  the country listing session of one user                   *)
(***************************************************************************)
Vias == {"command", "button"}

Handlers(U, ids) ==
    \/ \E u \in U, via \in Vias : start(u, via)
    \/ \E u \in U, via \in Vias : help_command(u, via)
    \/ \E u \in U, via \in Vias, args \in {<<>>} \cup {<<c>> : c \in CountryCodes} :
          purchase_number_command(u, via, args, ids)
    \/ \E u \in U, code \in CountryCodes : select_country(u, code, ids)
    \/ \E u \in U, via \in Vias : my_sms_command(u, via)
    \/ \E u \in U : active_numbers_command(u)
    \/ \E u \in U, args \in {<<>>} \cup {<<n>> : n \in NumberIds} :
          cancel_number_command(u, args)
    \/ \E u \in U, id \in NumberIds : view_sms_messages(u, id)
    \/ \E u \in U : refresh_sms(u)
    \/ check_sms_scheduler

Next == Handlers(Users, IssuedIds)

Spec == Init /\ [][Next]_vars

NextSingle == Handlers(SingleUser, NumberIds)

SpecSingle == Init /\ [][NextSingle]_vars

NextBrowse ==
    \/ \E u \in SingleUser, via \in Vias : list_countries_command(u, via)
    \/ \E u \in SingleUser, page \in 0..(MaxCountries \div items_per_page) + 1 :
          country_page(u, page)
    \/ \E u \in SingleUser, via \in Vias : start(u, via)
    \/ \E u \in SingleUser, via \in Vias : help_command(u, via)

SpecBrowse == Init /\ [][NextBrowse]_vars

(***************************************************************************)
(* Properties.                                                             *)
(***************************************************************************)
Owned(uds, u) == Range(NumbersOf(uds, u))

IsPrefix(a, b) == Len(a) <= Len(b) /\ SubSeq(b, 1, Len(a)) = a

Min(a, b) == IF a < b THEN a ELSE b

\* C1: a cancel reports success only if the number is in the caller's owned
\* list and its status is active at the time of the call, so a second cancel
\* of the same number by the same user fails.
C1_CancelOnlyIfOwnedAndActive ==
    [][(last'.op = "cancel" /\ last'.reply = "cancelled") =>
          /\ last'.number_id \in Owned(user_data_store, last'.user)
          /\ last'.number_id \in DOMAIN purchased_numbers
          /\ purchased_numbers[last'.number_id].status = "active"]_vars

\* C2: the owner recorded for a number-id is the user whose purchase first
\* created the entry, and it never changes afterwards.
C2_OwnerNeverChanges ==
    [][\A n \in DOMAIN purchased_numbers :
          /\ n \in DOMAIN purchased_numbers'
          /\ purchased_numbers'[n].user_id = purchased_numbers[n].user_id]_vars

\* C3: every number-id with a registry entry is in the owned list of exactly
\* one user, and that user is the entry's recorded owner.
C3_ExactlyOneOwnedList ==
    \A n \in DOMAIN purchased_numbers :
        {u \in Users : n \in Owned(user_data_store, u)} = {purchased_numbers[n].user_id}

\* C4: once the registry records status cancelled for a number-id, no later
\* operation makes its status active again.
C4_CancelledStaysCancelled ==
    [][\A n \in DOMAIN purchased_numbers :
          purchased_numbers[n].status = "cancelled" =>
              /\ n \in DOMAIN purchased_numbers'
              /\ purchased_numbers'[n].status = "cancelled"]_vars

\* C5: start leaves the registry and every owned list unchanged, and an
\* owned list is only ever extended by any operation.
C5_OwnedListOnlyExtended ==
    [][/\ \A u \in Users :
             IsPrefix(NumbersOf(user_data_store, u), NumbersOf(user_data_store', u))
       /\ last'.op = "start" => purchased_numbers' = purchased_numbers]_vars

\* C6: after a purchase that succeeded at the provider with number-id n and
\* phone number p for user u, the registry entry of n has status active,
\* owner u and phone number p, and n is the last element of u's owned list.
C6_PurchaseRecorded ==
    (last.op = "purchase" /\ last.reply = "purchased") =>
        LET n == last.calls[1].result.data.number_id
            p == last.calls[1].result.data.phone_number
            numbers == NumbersOf(user_data_store, last.user)
        IN  /\ n \in DOMAIN purchased_numbers
            /\ purchased_numbers[n].status = "active"
            /\ purchased_numbers[n].user_id = last.user
            /\ purchased_numbers[n].phone_number = p
            /\ last.user \in DOMAIN user_data_store
            /\ user_data_store[last.user].has_numbers
            /\ numbers # <<>>
            /\ numbers[Len(numbers)] = n

\* a purchase of a second, different number appended to an existing list
C6_Witness ==
    /\ last.op = "purchase" /\ last.reply = "purchased"
    /\ Len(NumbersOf(user_data_store, last.user)) = 2
    /\ NumbersOf(user_data_store, last.user)[1] # last.calls[1].result.data.number_id

\* C7: a cancel that does not succeed leaves the registry and every owned
\* list as they were, and the provider's cancel is called only after the
\* ownership check passed.
C7_FailedCancelChangesNothing ==
    [][last'.op = "cancel" =>
          /\ last'.reply # "cancelled" =>
                /\ purchased_numbers' = purchased_numbers
                /\ user_data_store' = user_data_store
          /\ last'.calls # <<>> =>
                /\ OwnershipCheck(user_data_store, last'.user, last'.number_id)
                /\ last'.calls = <<Call("cancel_number", last'.number_id,
                                        last'.calls[1].result)>>]_vars

\* the provider refused the cancel of an owned, active number
C7_Witness ==
    /\ last.op = "cancel" /\ last.reply = "cancel_failed"
    /\ last.calls # <<>>
    /\ purchased_numbers[last.number_id].status = "active"

\* C8: page k of a snapshot of N countries shows exactly the items at indices
\* [10k, min(10(k+1), N)) in snapshot order; Next is present iff 10(k+1) < N
\* and Previous iff k > 0.
C8_PageContents ==
    last.reply = "countries_page" =>
        LET k == last.shown.page
            countries == user_data[last.user].countries
            N == Len(countries)
            lo == items_per_page * k
            hi == Min(items_per_page * (k + 1), N)
        IN  /\ k >= 0
            /\ Len(last.shown.items) = (IF hi > lo THEN hi - lo ELSE 0)
            /\ \A i \in 1..Len(last.shown.items) :
                  last.shown.items[i] = countries[lo + i]
            /\ last.shown.next <=> (items_per_page * (k + 1) < N)
            /\ last.shown.prev <=> (k > 0)

\* the last, partial page of a three-page listing
C8_Witness ==
    /\ last.reply = "countries_page"
    /\ last.shown.page = 2
    /\ Len(last.shown.items) = 1
    /\ last.shown.prev /\ ~last.shown.next

\* C9: with no purchase and no cancel in between, two invocations of active
\* (or of mysms) by the same user return identical results, whatever other
\* operations occur in between.
C9_ListingsStable ==
    [][last'.op \notin {"purchase", "cancel"} =>
          \A u \in Users :
              /\ ActiveResultOf(user_data_store', purchased_numbers', u)
                    = ActiveResultOf(user_data_store, purchased_numbers, u)
              /\ MySmsResultOf(user_data_store', purchased_numbers', u)
                    = MySmsResultOf(user_data_store, purchased_numbers, u)]_vars

\* C10 as stated: after a failed listCountries the failure message carries
\* the provider's error text and the caller's session holds no country list,
\* whatever it held before.
C10_NoListAfterFailure ==
    (last.op = "countries" /\ last.reply = "countries_error") =>
        /\ last.calls[1].result.has_error => last.error = last.calls[1].result.error
        /\ ~user_data[last.user].has_countries

\* C10 as amended: a failed listCountries is reported with the provider's
\* error text and leaves every session and every sent button as it was.
C10_FailureLeavesSession ==
    [][(last'.op = "countries" /\ last'.reply = "countries_error") =>
          /\ ~last'.calls[1].result.success
          /\ last'.calls[1].result.has_error => last'.error = last'.calls[1].result.error
          /\ user_data' = user_data
          /\ chat_buttons' = chat_buttons]_vars

\* a listing fails while the session still holds an earlier snapshot
C10_Witness ==
    /\ last.op = "countries" /\ last.reply = "countries_error"
    /\ last.calls[1].result.has_error
    /\ user_data[last.user].has_countries

\* C11: a cancel of a number-id that no purchase created fails with a
\* 'not found' outcome, a cancel of an existing number-id owned by another
\* user fails with a 'not yours' outcome, and the two outcomes differ.
C11_DistinctFailures ==
    \A u \in Users, unknown \in NumberIds, other \in NumberIds :
        (/\ unknown \notin DOMAIN purchased_numbers
         /\ other \in DOMAIN purchased_numbers
         /\ purchased_numbers[other].user_id # u
         /\ other \notin Owned(user_data_store, u))
        => /\ CancelCheck(user_data_store, purchased_numbers, u, unknown) # "ok"
           /\ CancelCheck(user_data_store, purchased_numbers, u, other) # "ok"
           /\ CancelCheck(user_data_store, purchased_numbers, u, unknown)
                 # CancelCheck(user_data_store, purchased_numbers, u, other)

\* C12: a purchase started with a country code, by the direct command or by
\* a country button, calls the provider's purchase operation exactly once.
C12_BothPathsCallProvider ==
    (/\ last.op = "purchase"
     /\ \/ last.via = "command" /\ last.reply # "purchase_menu"
        \/ last.via = "button" /\ last.reply # "crash")
    => /\ Len(last.calls) = 1
       /\ last.calls[1].fn = "purchase_number"

\* C13: a purchase the provider fails is reported with the provider's error
\* text, creates no registry entry and leaves every registry entry and every
\* owned list unchanged.
C13_FailedPurchaseChangesNothing ==
    [][(/\ last'.op = "purchase"
        /\ last'.calls # <<>>
        /\ ~last'.calls[1].result.success)
       => /\ last'.reply = "purchase_failed"
          /\ last'.calls[1].result.has_error =>
                last'.error = last'.calls[1].result.error
          /\ purchased_numbers' = purchased_numbers
          /\ user_data_store' = user_data_store]_vars

\* the provider fails a purchase while the registry holds an entry
C13_Witness ==
    /\ last.op = "purchase" /\ last.reply = "purchase_failed"
    /\ last.calls[1].result.has_error
    /\ DOMAIN purchased_numbers # {}

\* C14: a poll tick calls fetchSms exactly once for every number whose
\* status is active and for no other number.
C14_PollFetchesActive ==
    last.op = "poll" =>
        LET active == {n \in DOMAIN purchased_numbers :
                          purchased_numbers[n].status = "active"}
        IN  /\ Len(last.calls) = Cardinality(active)
            /\ {last.calls[i].arg : i \in DOMAIN last.calls} = active

\* C16: active renders exactly the caller's owned numbers whose status is
\* active, in owned-list order, and each rendered entry shows the number-id
\* of its own number.
C16_ActiveShowsOwnIds ==
    (last.op = "active" /\ last.reply = "active_numbers") =>
        LET numbers == NumbersOf(user_data_store, last.user)
            ids == SelectSeq(numbers,
                       LAMBDA n : /\ n \in DOMAIN purchased_numbers
                                  /\ purchased_numbers[n].status = "active")
        IN  /\ Len(last.shown) = Len(ids)
            /\ \A i \in 1..Len(last.shown) :
                  /\ last.shown[i].id = ids[i]
                  /\ last.shown[i].phone_number = purchased_numbers[ids[i]].phone_number

\* C17: every number-id in an owned list is a key of the registry, so the
\* 'Number not found.' reply behind the ownership check is never sent.
C17_NoDanglingId ==
    /\ \A u \in Users : Owned(user_data_store, u) \subseteq DOMAIN purchased_numbers
    /\ last.reply # "not_found"

\* a cancel that passed the ownership check and went on to the registry check
C17_Witness ==
    /\ last.op = "cancel" /\ last.calls # <<>>
    /\ last.number_id \in Owned(user_data_store, last.user)

\* C18: every displayed page has an index within [0, ceil(N/10)) for the
\* current snapshot of N > 0 countries, so a displayed page is never empty.
C18_PageInRange ==
    last.reply = "countries_page" =>
        LET N == Len(user_data[last.user].countries)
        IN  /\ N > 0
            /\ 0 <= last.shown.page
            /\ last.shown.page * items_per_page < N
            /\ last.shown.items # <<>>

\* C19: a view_sms_<id> button event from user u makes the handler call the
\* provider's fetchSms for id only if id is in u's owned list.
C19_ViewOnlyOwned ==
    last.op = "view_sms" =>
        \A i \in DOMAIN last.calls :
            last.calls[i].arg \in Owned(user_data_store, last.user)

====
